---- MODULE Spec2Model ----
(***************************************************************************)
(* Order-lifecycle engine of quantty: core_logic/module_C_execution.py     *)
(* driven by QuantDaemon.run_execution_monitor (main.py).                  *)
(*                                                                         *)
(* Prices are integers in cents and arithmetic is exact: the hard-coded 5%  *)
(* stop (price * 0.95) is a whole number of cents for the prices used      *)
(* here (multiples of 20 cents).  A price of 0 stands for "no last         *)
(* price": an empty ticker list, last = None, last = 0.0 and a raising     *)
(* reqTickers all end the same way in both places that read the price (no  *)
(* entry order, no stop comparison).  The open-orders query and the order  *)
(* placement may raise; nothing in the module catches that, so the         *)
(* exception leaves the cycle where it is raised.                          *)
(***************************************************************************)
EXTENDS Integers, Sequences, FiniteSets

\* ---------------------------------------------------------------- bounds
MaxOrders == 2            \* orders the broker accepts in all

\* ------------------------------------------------------- program constants
ARC_CAPITAL == 10000000          \* 100000.0 dollars, in cents
MAX_RISK_PER_TRADE == 150000     \* 1500.0 dollars, in cents
MAX_TOTAL_DRAWDOWN_PCT == 15     \* 0.15, in percent
LONG_TERM_CAPITAL_RATIO == 80    \* 0.80, in percent
SHORT_TERM_CAPITAL_RATIO == 20   \* 0.20, in percent
NoPrice == 0

\* ------------------------------------------------------------ input sets
Symbols == {"AAA", "BBB"}                 \* config/tickers.txt
\* The prices each symbol trades at, in cents.  AAA also trades exactly at
\* the stop of a 2000 fill (1900) and at a price whose 5% risk per share
\* exceeds MAX_RISK_PER_TRADE, so that not even one share can be bought.
TradePrices(t) == IF t = "AAA" THEN {1800, 1900, 2000} ELSE {2000}
Prices(t) == IF t = "AAA" THEN TradePrices(t) \cup {4000000} ELSE TradePrices(t)
\* What reqTickers may report: AAA can lose its quote again, BBB keeps it.
Quotes(t) == IF t = "AAA" THEN Prices(t) \cup {NoPrice} ELSE Prices(t)
OpenStatus == "Submitted"
CancelStatuses == {"Cancelled", "ApiCancelled"}
\* The engine never cancels through the API, so the broker reports
\* "Cancelled" only.
BrokerCancelStatuses == {"Cancelled"}

\* Signal records as module_B_signals.generate_signals builds them.
Signals(t) ==
    { [symbol |-> t, action |-> "BUY", price |-> 2000, stop_level |-> s,
       signal_source |-> "Module B"] : s \in {1700} }

\* The value run_execution_monitor receives from the lifecycle function:
\* the function ends in "pass" and has no return statement.
None == [iterable |-> FALSE, tickers |-> {}]

VARIABLES
    pending_signals,   \* QuantDaemon.pending_signals: ticker -> signal
    ACTIVE_TRADES,     \* module global: ticker -> trade_info
    orders,            \* broker: per symbol, the orders placed so far
    positions,         \* broker: symbol -> signed quantity
    last,              \* broker: symbol -> last traded price, or NoPrice
    pc,                \* position of run_execution_monitor
    successfully_handled_tickers,  \* local of run_execution_monitor
    hist,              \* bookkeeping about the current cycle
    contracts_to_monitor,  \* QuantDaemon.contracts: the tickers of the ticker file
    fncall,            \* a call of one of the pure functions, and its result
    conn               \* the IBConnection object and its two threads

vars == <<pending_signals, ACTIVE_TRADES, orders, positions, last, pc,
          successfully_handled_tickers, hist, contracts_to_monitor, fncall, conn>>

\* ------------------------------------------------------------- helpers
\* The orders the broker accepts in all: one more when the ticker file
\* names a single ticker.
OrderBudget ==
    IF contracts_to_monitor = Symbols THEN MaxOrders ELSE MaxOrders + 1

Put(f, k, v) == [x \in (DOMAIN f) \cup {k} |-> IF x = k THEN v ELSE f[x]]
Drop(f, ks) == [x \in (DOMAIN f) \ ks |-> f[x]]

\* Order i of symbol t is still working at the broker.
IsOpen(t, i) == i \in 1..Len(orders[t]) /\ orders[t][i].status = OpenStatus

\* ib.reqOpenOrders(), narrowed to the orders of one symbol.
reqOpenOrders_Stale(t) == {}
reqOpenOrders(t) == { i \in 1..Len(orders[t]) : IsOpen(t, i) }

check_open_orders_Never(t) == FALSE
check_open_orders(t) == reqOpenOrders(t) # {}

\* ib: the tickers for which ib.positions() raises in this call.  The
\* except clause of lines 47-49 answers 0.0, as for a ticker not held.
get_current_position(ib, t) ==
    IF t \in ib THEN 0 ELSE positions[t]

\* limit_price * 0.95
StopOf(price) == (price * 95) \div 100

\* Lines 61-71: the capital ratio of the signal type, and the group capital
\* it gives.  Both are computed and logged; the quantity does not use them.
capital_ratio_NoDefault(signal_type) ==
    IF signal_type = "LONG" THEN LONG_TERM_CAPITAL_RATIO
    ELSE IF signal_type = "SHORT" THEN SHORT_TERM_CAPITAL_RATIO
    ELSE 0
capital_ratio(signal_type) ==
    IF signal_type = "LONG" THEN LONG_TERM_CAPITAL_RATIO
    ELSE IF signal_type = "SHORT" THEN SHORT_TERM_CAPITAL_RATIO
    ELSE LONG_TERM_CAPITAL_RATIO
max_group_capital(signal_type) == (ARC_CAPITAL * capital_ratio(signal_type)) \div 100

calculate_order_quantity_OnlyNegative(ticker, signal_type, current_price, risk_per_share) ==
    IF risk_per_share < 0 THEN 0
    ELSE IF risk_per_share = 0 THEN MAX_RISK_PER_TRADE
    ELSE MAX_RISK_PER_TRADE \div risk_per_share
calculate_order_quantity(ticker, signal_type, current_price, risk_per_share) ==
    IF risk_per_share <= 0 THEN 0
    ELSE MAX_RISK_PER_TRADE \div risk_per_share

LimitOrder(action, quantity, limit_price) ==
    [action |-> action, totalQuantity |-> quantity, orderType |-> "LMT",
     lmtPrice |-> limit_price, status |-> OpenStatus, avgFillPrice |-> 0]

Abs(x) == IF x < 0 THEN -x ELSE x

MarketOrder(action, position_size) ==
    [action |-> action, totalQuantity |-> Abs(position_size), orderType |-> "MKT",
     lmtPrice |-> 0, status |-> OpenStatus, avgFillPrice |-> 0]


\* ------------------------------------------------- bookkeeping of a cycle
\* startLen:    per symbol, the number of broker orders when the cycle began
\* startSignals: the tickers with a pending signal when the cycle began
\* startTrades: ACTIVE_TRADES when the cycle began
\* evalTrades:  ACTIVE_TRADES when the stop-loss loop (section C) began
\* evalLen:     per symbol, the number of broker orders at that moment
\* fresh:       the cycle has run and nothing else has happened since
\* repeat:      the cycle began right after another cycle, with no signal
\*              or broker event in between
\* prevPlaced:  symbols the cycle before this one placed an order for
\* raised:      the exception run_execution_monitor ended with, if any
\* failed:      the broker call that raised, and the symbol it was made for
\* prevFailed:  the liquidation that raised in the cycle before this one
\* skipped:     the tracked symbols the last stop-loss loop passed over for
\*              want of a price, while nothing but prices changed since;
\*              prevSkipped: the same at the start of the cycle
\* positionsFailed: ib.positions() has raised inside get_current_position
\*              in this cycle
NoOrders == [t \in Symbols |-> 0]
NoTrades == [t \in {} |-> 0]
NoFailure == [call |-> "none", symbol |-> "none"]
BlankHist ==
    [startLen |-> NoOrders, startSignals |-> {}, startTrades |-> NoTrades,
     evalTrades |-> NoTrades, evalLen |-> NoOrders,
     fresh |-> FALSE, repeat |-> FALSE, prevPlaced |-> {}, raised |-> "none",
     failed |-> NoFailure, prevFailed |-> NoFailure,
     skipped |-> {}, prevSkipped |-> {}, positionsFailed |-> FALSE]
\* What the bookkeeping keeps when only the price moves.
Carried == [BlankHist EXCEPT !.skipped = hist.skipped]

\* Orders the current cycle has placed for symbol t (indices into orders[t]).
CycleOrders(t) == (hist.startLen[t] + 1)..Len(orders[t])
PlacedNow == { t \in Symbols : CycleOrders(t) # {} }

\* No pure function is being called.
NoCall == [fn |-> "none", tag |-> "", p |-> 0, q |-> 0, done |-> FALSE,
           out |-> 0, ratio |-> 0, ret |-> "", log |-> ""]

\* IBConnection.__init__: the flags, the threads not started, and what the
\* properties remember of the run (lateConnect: connect_blocking was
\* called after stop(); pending: the heartbeat has detected a disconnect
\* and no reconnect has been attempted since; hookRaised: the last call of
\* the loop hook raised).
NewConnection ==
    [stop |-> FALSE, schedule_reconnect |-> FALSE, connected |-> FALSE,
     link |-> FALSE, loop_hook |-> FALSE,
     main |-> "new", hb |-> "new", stopper |-> "idle",
     lateConnect |-> FALSE, pending |-> FALSE, hookRaised |-> FALSE]

EngineInit ==
    /\ conn = NewConnection
    /\ pending_signals = [t \in {} |-> 0]
    /\ ACTIVE_TRADES = NoTrades
    /\ orders = [t \in Symbols |-> <<>>]
    /\ positions = [t \in Symbols |-> 0]
    /\ last = [t \in Symbols |-> NoPrice]
    /\ pc = "idle"
    /\ successfully_handled_tickers = None
    /\ hist = BlankHist

\* QuantDaemon.__init__: one Stock contract per ticker of the ticker file.
Init ==
    /\ fncall = NoCall
    /\ contracts_to_monitor = Symbols
    /\ EngineInit

\* ------------------------------------------------------------ environment
\* Signal generation and the broker act between two heartbeats.
EnvVars == <<pc, successfully_handled_tickers>>

\* run_daily_analysis: a new signal replaces the pending one of its ticker.
NewSignal(t, sig) ==
    /\ pc = "idle"
    /\ t \in contracts_to_monitor
    /\ pending_signals' = Put(pending_signals, t, sig)
    /\ hist' = BlankHist
    /\ UNCHANGED <<fncall, conn, contracts_to_monitor, ACTIVE_TRADES, orders, positions, last, EnvVars>>

\* The market moves, or stops quoting.
PriceTick(t, p) ==
    /\ pc = "idle"
    /\ last[t] # p
    /\ last' = [last EXCEPT ![t] = p]
    /\ hist' = Carried
    /\ UNCHANGED <<fncall, conn, contracts_to_monitor, pending_signals, ACTIVE_TRADES, orders, positions, EnvVars>>

\* A resting limit order fills at its limit or better; a market order at
\* the last traded price.
FillPrices(t, o) ==
    IF o.orderType = "LMT"
    THEN { f \in TradePrices(t) : IF o.action = "BUY" THEN f <= o.lmtPrice ELSE f >= o.lmtPrice }
    ELSE {last[t]} \cap TradePrices(t)

BrokerFill(t, i, f) ==
    /\ pc = "idle"
    /\ IsOpen(t, i)
    /\ f \in FillPrices(t, orders[t][i])
    /\ orders' = [orders EXCEPT ![t][i].status = "Filled", ![t][i].avgFillPrice = f]
    /\ positions' = [positions EXCEPT ![t] =
           IF orders[t][i].action = "BUY" THEN @ + orders[t][i].totalQuantity
                                          ELSE @ - orders[t][i].totalQuantity]
    /\ hist' = BlankHist
    /\ UNCHANGED <<fncall, conn, contracts_to_monitor, pending_signals, ACTIVE_TRADES, last, EnvVars>>

BrokerCancel(t, i, st) ==
    /\ pc = "idle"
    /\ IsOpen(t, i)
    /\ st \in BrokerCancelStatuses
    /\ orders' = [orders EXCEPT ![t][i].status = st]
    /\ hist' = BlankHist
    /\ UNCHANGED <<fncall, conn, contracts_to_monitor, pending_signals, ACTIVE_TRADES, positions, last, EnvVars>>

\* The account holder closes the position by hand, outside the engine.
ManualClose(t) ==
    /\ pc = "idle"
    /\ positions[t] # 0
    /\ positions' = [positions EXCEPT ![t] = 0]
    /\ hist' = BlankHist
    /\ UNCHANGED <<fncall, conn, contracts_to_monitor, pending_signals, ACTIVE_TRADES, orders, last, EnvVars>>

\* The account holder sells short, by hand, a flat symbol the engine
\* tracks and has no working order for: the broker reports a negative
\* position that no order of the engine produced.
ShortSymbols == {"AAA"}
ManualShort(t) ==
    /\ pc = "idle"
    /\ t \in ShortSymbols
    /\ t \in DOMAIN ACTIVE_TRADES
    /\ \A i \in 1..Len(orders[t]) : ~IsOpen(t, i)
    /\ positions[t] = 0
    /\ positions' = [positions EXCEPT ![t] = -100]
    /\ hist' = BlankHist
    /\ UNCHANGED <<fncall, conn, contracts_to_monitor, pending_signals, ACTIVE_TRADES, orders, last, EnvVars>>

\* ------------------------------------------------- run_execution_monitor
RECURSIVE SumLen(_)
SumLen(S) == IF S = {} THEN 0
             ELSE LET t == CHOOSE x \in S : TRUE IN Len(orders[t]) + SumLen(S \ {t})
TotalOrders == SumLen(Symbols)

\* The heartbeat fires.  check_for_mandatory_liquidation only logs.
BeginMonitor_Reentrant ==
    /\ pc \in {"idle", "C"}
    /\ pc' = "A"
    /\ hist' = [startLen |-> [t \in Symbols |-> Len(orders[t])],
                startSignals |-> DOMAIN pending_signals,
                startTrades |-> ACTIVE_TRADES,
                evalTrades |-> NoTrades,
                evalLen |-> NoOrders,
                fresh |-> FALSE,
                repeat |-> hist.fresh /\ ~hist.positionsFailed,
                prevPlaced |-> IF hist.fresh THEN PlacedNow ELSE {},
                raised |-> "none",
                failed |-> NoFailure,
                prevFailed |-> IF hist.failed.call = "liquidate_position"
                              THEN hist.failed ELSE NoFailure,
                skipped |-> hist.skipped,
                prevSkipped |-> hist.skipped,
                positionsFailed |-> FALSE]
    /\ UNCHANGED <<fncall, conn, contracts_to_monitor, pending_signals, ACTIVE_TRADES, orders, positions, last,
                   successfully_handled_tickers>>
BeginMonitor ==
    /\ pc = "idle"
    /\ pc' = "A"
    /\ hist' = [startLen |-> [t \in Symbols |-> Len(orders[t])],
                startSignals |-> DOMAIN pending_signals,
                startTrades |-> ACTIVE_TRADES,
                evalTrades |-> NoTrades,
                evalLen |-> NoOrders,
                fresh |-> FALSE,
                repeat |-> hist.fresh /\ ~hist.positionsFailed,
                prevPlaced |-> IF hist.fresh THEN PlacedNow ELSE {},
                raised |-> "none",
                failed |-> NoFailure,
                prevFailed |-> IF hist.failed.call = "liquidate_position"
                              THEN hist.failed ELSE NoFailure,
                skipped |-> hist.skipped,
                prevSkipped |-> hist.skipped,
                positionsFailed |-> FALSE]
    /\ UNCHANGED <<fncall, conn, contracts_to_monitor, pending_signals, ACTIVE_TRADES, orders, positions, last,
                   successfully_handled_tickers>>

\* --- section A: placing new orders
entry_stop_level(limit_price) == StopOf(limit_price)

EntryQuantity(ticker) ==
    calculate_order_quantity(ticker, pending_signals[ticker], last[ticker],
                             last[ticker] - entry_stop_level(last[ticker]))

\* The conditions of lines 157-194 under which the loop reaches line 197.
PlacesEntry(ib, ticker) ==
    /\ ticker \in contracts_to_monitor
    /\ get_current_position(ib, ticker) = 0
    /\ ~ check_open_orders(ticker)
    /\ last[ticker] # NoPrice
    /\ EntryQuantity(ticker) # 0

place_entry_order_AsMarket(ticker, action, quantity, limit_price) ==
    Append(orders[ticker], MarketOrder(action, quantity))
place_entry_order(ticker, action, quantity, limit_price) ==
    Append(orders[ticker], LimitOrder(action, quantity, limit_price))

NewTradeInfo(ticker) ==
    [entry_trade |-> Len(orders[ticker]) + 1,
     position |-> EntryQuantity(ticker),
     entry_price |-> last[ticker],
     internal_stop |-> entry_stop_level(last[ticker]),
     signal_type |-> pending_signals[ticker]]

\* The loop of section A over the tickers in `visited`.
LoopA(ib, visited) ==
    LET placing == { t \in visited : PlacesEntry(ib, t) }
    IN /\ TotalOrders + Cardinality(placing) <= OrderBudget
       /\ orders' = [t \in Symbols |->
              IF t \in placing
              THEN place_entry_order(t, "BUY", EntryQuantity(t), last[t])
              ELSE orders[t]]
       /\ ACTIVE_TRADES' = [t \in (DOMAIN ACTIVE_TRADES) \cup placing |->
              IF t \in placing THEN NewTradeInfo(t) ELSE ACTIVE_TRADES[t]]

\* The tickers ib.positions() may raise for in section A.  A lookup that
\* fails answers 0.0, so the failure shows only for a held ticker that the
\* loop would place an order for if it were flat; the lookups that fail
\* here are those for a tracked long position, the one a fill leaves.
FailuresA ==
    { t \in (DOMAIN pending_signals) \cap DOMAIN ACTIVE_TRADES :
        positions[t] > 0 /\ PlacesEntry({t}, t) }

SectionA ==
    /\ pc = "A"
    /\ \E ib \in SUBSET FailuresA :
         /\ LoopA(ib, DOMAIN pending_signals)
         /\ hist' = [hist EXCEPT !.positionsFailed = ib # {}]
    /\ pc' = "B"
    /\ UNCHANGED <<fncall, conn, contracts_to_monitor, pending_signals, positions, last, successfully_handled_tickers>>

\* The broker calls of section A that nothing catches, and whether the
\* loop makes them for ticker: ib.reqOpenOrders() (line 162, every ticker
\* with a contract) and ib.placeOrder() (line 197).
CallsA == {"reqOpenOrders", "placeOrder"}
ReachedA(ib, call, ticker) ==
    /\ ticker \in DOMAIN pending_signals
    /\ ticker \in contracts_to_monitor
    /\ call = "placeOrder" => PlacesEntry(ib, ticker)

\* The exception leaves manage_limit_order_lifecycle and
\* run_execution_monitor: sections B and C and the clean-up do not run.
\* Of a cycle that ends in section C the bookkeeping keeps the exception and
\* the liquidation that raised; of one that ends in section A, which has
\* evaluated nothing, only what the last stop-loss loop passed over.
Escapes(ib, call, ticker) ==
    /\ pc' = "idle"
    /\ hist' = IF call = "liquidate_position"
               THEN [hist EXCEPT !.raised = "GatewayError",
                                 !.failed = [call |-> call, symbol |-> ticker],
                                 !.positionsFailed = hist.positionsFailed \/ ib # {}]
               ELSE Carried

\* A broker call of section A raises for ticker.  The tickers the dict
\* yields before it (`before`: dicts keep insertion order, and either
\* ticker may have been inserted first) have been handled, the others not.
SectionA_Raises(call, ticker, before) ==
    /\ pc = "A"
    /\ call \in CallsA
    /\ before \subseteq (DOMAIN pending_signals) \ {ticker}
    /\ \E ib \in SUBSET (FailuresA \cap (before \cup {ticker})) :
         /\ ReachedA(ib, call, ticker)
         /\ LoopA(ib, before)
         /\ Escapes(ib, call, ticker)
    /\ UNCHANGED <<fncall, conn, contracts_to_monitor, pending_signals, positions, last, successfully_handled_tickers>>

\* --- section B: fills and cancellations of the tracked entry orders
EntryTrade(trades, ticker) == orders[ticker][trades[ticker].entry_trade]

AbsorbFill_Compounds(trade_info, trade) ==
    [trade_info EXCEPT !.entry_price = trade.avgFillPrice,
                       !.internal_stop = StopOf(trade_info.internal_stop)]
AbsorbFill_Averaged(trade_info, trade) ==
    [trade_info EXCEPT
        !.entry_price = (trade_info.entry_price + trade.avgFillPrice) \div 2,
        !.internal_stop = StopOf((trade_info.entry_price + trade.avgFillPrice) \div 2)]
AbsorbFill(trade_info, trade) ==
    [trade_info EXCEPT !.entry_price = trade.avgFillPrice,
                       !.internal_stop = StopOf(trade.avgFillPrice)]

trades_to_remove ==
    { t \in DOMAIN ACTIVE_TRADES : EntryTrade(ACTIVE_TRADES, t).status \in CancelStatuses }

SectionB ==
    /\ pc = "B"
    /\ ACTIVE_TRADES' = [t \in (DOMAIN ACTIVE_TRADES) \ trades_to_remove |->
           IF EntryTrade(ACTIVE_TRADES, t).status = "Filled"
           THEN AbsorbFill(ACTIVE_TRADES[t], EntryTrade(ACTIVE_TRADES, t))
           ELSE ACTIVE_TRADES[t]]
    /\ hist' = [hist EXCEPT !.evalTrades = ACTIVE_TRADES',
                            !.evalLen = [t \in Symbols |-> Len(orders[t])]]
    /\ pc' = "C"
    /\ UNCHANGED <<fncall, conn, contracts_to_monitor, pending_signals, orders, positions, last, successfully_handled_tickers>>

\* --- section C: internal stop loss
\* market_data[0].last if market_data and market_data[0].last else None
current_price(ticker) == last[ticker]

\* The side of the closing order section C places for ticker, or "none".
StopAction_Unheld(ib, ticker) ==
    LET position == get_current_position(ib, ticker)
        internal_stop == ACTIVE_TRADES[ticker].internal_stop
    IN IF current_price(ticker) # NoPrice
       THEN IF position >= 0 /\ current_price(ticker) < internal_stop THEN "SELL"
            ELSE IF position < 0 /\ current_price(ticker) > internal_stop THEN "BUY"
            ELSE "none"
       ELSE "none"
StopAction_Flipped(ib, ticker) ==
    LET position == get_current_position(ib, ticker)
        internal_stop == ACTIVE_TRADES[ticker].internal_stop
    IN IF Abs(position) > 0 /\ current_price(ticker) # NoPrice
       THEN IF position > 0 /\ current_price(ticker) > internal_stop THEN "SELL"
            ELSE IF position < 0 /\ current_price(ticker) < internal_stop THEN "BUY"
            ELSE "none"
       ELSE "none"
StopAction_NoPriceAsZero(ib, ticker) ==
    LET position == get_current_position(ib, ticker)
        internal_stop == ACTIVE_TRADES[ticker].internal_stop
    IN IF Abs(position) > 0
       THEN IF position > 0 /\ current_price(ticker) < internal_stop THEN "SELL"
            ELSE IF position < 0 /\ current_price(ticker) > internal_stop THEN "BUY"
            ELSE "none"
       ELSE "none"
StopAction_SkipSticks(ib, ticker) ==
    LET position == get_current_position(ib, ticker)
        internal_stop == ACTIVE_TRADES[ticker].internal_stop
    IN IF Abs(position) > 0 /\ current_price(ticker) # NoPrice /\ ticker \notin hist.skipped
       THEN IF position > 0 /\ current_price(ticker) < internal_stop THEN "SELL"
            ELSE IF position < 0 /\ current_price(ticker) > internal_stop THEN "BUY"
            ELSE "none"
       ELSE "none"
StopAction_AtStop(ib, ticker) ==
    LET position == get_current_position(ib, ticker)
        internal_stop == ACTIVE_TRADES[ticker].internal_stop
    IN IF Abs(position) > 0 /\ current_price(ticker) # NoPrice
       THEN IF position > 0 /\ current_price(ticker) <= internal_stop THEN "SELL"
            ELSE IF position < 0 /\ current_price(ticker) >= internal_stop THEN "BUY"
            ELSE "none"
       ELSE "none"
StopAction(ib, ticker) ==
    LET position == get_current_position(ib, ticker)
        internal_stop == ACTIVE_TRADES[ticker].internal_stop
    IN IF Abs(position) > 0 /\ current_price(ticker) # NoPrice
       THEN IF position > 0 /\ current_price(ticker) < internal_stop THEN "SELL"
            ELSE IF position < 0 /\ current_price(ticker) > internal_stop THEN "BUY"
            ELSE "none"
       ELSE "none"

liquidate_position(ticker, position_size, action) ==
    Append(orders[ticker], MarketOrder(action, position_size))

\* The loop of section C over the tickers in `visited`.
LoopC(ib, visited) ==
    LET stopped == { t \in visited : StopAction(ib, t) # "none" }
    IN /\ TotalOrders + Cardinality(stopped) <= OrderBudget
       /\ orders' = [t \in Symbols |->
              IF t \in stopped
              THEN liquidate_position(t, get_current_position(ib, t), StopAction(ib, t))
              ELSE orders[t]]
       /\ ACTIVE_TRADES' = Drop(ACTIVE_TRADES, stopped)

\* Lines 242-251: a held, tracked ticker without a price is passed over.
NoPriceSkips(ib) ==
    { t \in DOMAIN ACTIVE_TRADES :
        Abs(get_current_position(ib, t)) > 0 /\ current_price(t) = NoPrice }

\* The tickers ib.positions() may raise for in section C: the failure shows
\* only for a tracked ticker that would be closed or passed over.
FailuresC ==
    { t \in DOMAIN ACTIVE_TRADES : StopAction({}, t) # "none" \/ t \in NoPriceSkips({}) }

SectionC ==
    /\ pc = "C"
    /\ \E ib \in SUBSET FailuresC :
         /\ LoopC(ib, DOMAIN ACTIVE_TRADES)
         /\ hist' = [hist EXCEPT !.skipped = NoPriceSkips(ib),
                                 !.positionsFailed = hist.positionsFailed \/ ib # {}]
    /\ successfully_handled_tickers' = None
    /\ pc' = "cleanup"
    /\ UNCHANGED <<fncall, conn, contracts_to_monitor, pending_signals, positions, last>>

\* The tickers whose turn in the loop of section C ran to its end when
\* ib.placeOrder() raised inside liquidate_position (line 258 or 265) for
\* ticker: the order of ticker is not placed, and the
\* "del ACTIVE_TRADES[ticker]" after the call is not reached.
CompletedC_FailedToo(before, ticker) == before \cup {ticker}
CompletedC(before, ticker) == before

SectionC_Raises(ticker, before) ==
    /\ pc = "C"
    /\ ticker \in DOMAIN ACTIVE_TRADES
    /\ before \subseteq (DOMAIN ACTIVE_TRADES) \ {ticker}
    /\ \E ib \in SUBSET (FailuresC \cap before) :
         /\ StopAction(ib, ticker) # "none"
         /\ LoopC(ib, CompletedC(before, ticker))
         /\ Escapes(ib, "liquidate_position", ticker)
    /\ UNCHANGED <<fncall, conn, contracts_to_monitor, pending_signals, positions, last, successfully_handled_tickers>>

\* --- run_execution_monitor, step 3: "for ticker in successfully_handled_tickers"
CleanUp ==
    /\ pc = "cleanup"
    /\ IF successfully_handled_tickers.iterable
       THEN /\ pending_signals' = Drop(pending_signals, successfully_handled_tickers.tickers)
            /\ hist' = [hist EXCEPT !.fresh = TRUE]
       ELSE /\ pending_signals' = pending_signals
            /\ hist' = [hist EXCEPT !.fresh = TRUE, !.raised = "TypeError"]
    /\ pc' = "idle"
    /\ UNCHANGED <<fncall, conn, contracts_to_monitor, ACTIVE_TRADES, orders, positions, last, successfully_handled_tickers>>

Next ==
    \/ \E t \in Symbols : \E sig \in Signals(t) : NewSignal(t, sig)
    \/ \E t \in Symbols : \E p \in Quotes(t) : PriceTick(t, p)
    \/ \E t \in Symbols : \E i \in 1..OrderBudget : \E f \in TradePrices(t) : BrokerFill(t, i, f)
    \/ \E t \in Symbols : \E i \in 1..OrderBudget : \E st \in BrokerCancelStatuses : BrokerCancel(t, i, st)
    \/ \E t \in Symbols : ManualClose(t)
    \/ \E t \in Symbols : ManualShort(t)
    \/ BeginMonitor
    \/ SectionA
    \/ \E call \in CallsA : \E t \in Symbols : \E before \in SUBSET Symbols :
           SectionA_Raises(call, t, before)
    \/ SectionB
    \/ SectionC
    \/ \E t \in Symbols : \E before \in SUBSET Symbols : SectionC_Raises(t, before)
    \/ CleanUp

Spec == Init /\ [][Next]_vars

\* ------------------------------------------------- a single-ticker engine
\* The engine with a single ticker in the ticker file, in a market that
\* only moves and fills: no cancellation, no manual trade, no gateway
\* failure, and no signal once the ticker has been liquidated.  The signals
\* are those of the daily analysis and of the short-term strategies.
OneTicker == {"AAA"}

\* The signal strategy_MACD returns on a death cross.
ShortTermSignals(t) ==
    { [action |-> "SELL", price |-> 2000, source |-> "MACD Death Cross"] }
ReentryQuotes == {1800, 2000}

\* A closing order has been placed for t: the stop-loss loop liquidated it.
Liquidated(t) == \E i \in 1..Len(orders[t]) : orders[t][i].orderType = "MKT"

\* run_daily_analysis stores a signal for a ticker not liquidated so far.
SignalBeforeLiquidation(t, sig) ==
    /\ ~ Liquidated(t)
    /\ NewSignal(t, sig)

OneTickerInit ==
    /\ fncall = NoCall
    /\ contracts_to_monitor = OneTicker
    /\ EngineInit

OneTickerNext ==
    \/ \E t \in OneTicker : \E sig \in Signals(t) \cup ShortTermSignals(t) :
           SignalBeforeLiquidation(t, sig)
    \/ \E t \in OneTicker : \E p \in ReentryQuotes : PriceTick(t, p)
    \/ \E t \in OneTicker : \E i \in 1..OrderBudget : \E f \in TradePrices(t) :
           BrokerFill(t, i, f)
    \/ BeginMonitor
    \/ SectionA
    \/ SectionB
    \/ SectionC
    \/ CleanUp

OneTickerSpec == OneTickerInit /\ [][OneTickerNext]_vars

\* ------------------------------------------------------------ IBConnection
\* The connection object: the main loop (_main_loop, run by start() in the
\* main thread), the heartbeat thread (_heartbeat_loop) and a caller of
\* stop() (the signal handler or any other caller), one statement at a time.
otherVars == <<pending_signals, ACTIVE_TRADES, orders, positions, last, pc,
               successfully_handled_tickers, hist, contracts_to_monitor, fncall>>

\* self._schedule_reconnect = True
attempt_reconnect(c) == [c EXCEPT !.schedule_reconnect = TRUE]

\* ok: ib.connect() returned and ib.isConnected() is true; otherwise the
\* except clause sets self.connected = False.
connect_blocking(c, ok) == [c EXCEPT !.link = ok, !.connected = ok]

\* The caller connects before it calls start() (the call inside start()
\* is commented out).
CallerConnects(ok) ==
    /\ conn.main = "new"
    /\ conn' = [connect_blocking(conn, ok) EXCEPT !.main = "ready"]
    /\ UNCHANGED otherVars

\* start(): returns at once without a connection; otherwise starts the
\* heartbeat thread and enters the main loop.
start(loop_hook) ==
    /\ conn.main = "ready"
    /\ conn' = IF conn.link
               THEN [conn EXCEPT !.loop_hook = loop_hook, !.main = "while",
                                 !.hb = "while"]
               ELSE [conn EXCEPT !.loop_hook = loop_hook, !.main = "returned"]
    /\ UNCHANGED otherVars

\* stop(): self._stop = True, then ib.disconnect().
stop_SetsFlag ==
    /\ conn.stopper = "idle"
    /\ conn' = [conn EXCEPT !.stop = TRUE, !.stopper = "disconnect"]
    /\ UNCHANGED otherVars

stop_Disconnects ==
    /\ conn.stopper = "disconnect"
    /\ conn' = [conn EXCEPT !.link = FALSE, !.stopper = "idle"]
    /\ UNCHANGED otherVars

\* The gateway drops the connection.
LinkDrops ==
    /\ conn.link
    /\ conn' = [conn EXCEPT !.link = FALSE]
    /\ UNCHANGED otherVars

\* --- _heartbeat_loop
HbWhile ==
    /\ conn.hb = "while"
    /\ conn' = [conn EXCEPT !.hb = IF conn.stop THEN "exit" ELSE "check"]
    /\ UNCHANGED otherVars

\* ib.isConnected() answers, or raises.
HbCheck(raises) ==
    /\ conn.hb = "check"
    /\ conn' = IF raises
               THEN [attempt_reconnect(conn) EXCEPT !.hb = "sleep"]
               ELSE IF ~ conn.link
               THEN [attempt_reconnect(conn) EXCEPT !.hb = "sleep", !.pending = TRUE]
               ELSE [conn EXCEPT !.hb = "sleep"]
    /\ UNCHANGED otherVars

HbSleep ==
    /\ conn.hb = "sleep"
    /\ conn' = [conn EXCEPT !.hb = "while"]
    /\ UNCHANGED otherVars

Heartbeat == HbWhile \/ (\E raises \in BOOLEAN : HbCheck(raises)) \/ HbSleep

\* --- _main_loop
MainWhile ==
    /\ conn.main = "while"
    /\ conn' = [conn EXCEPT !.main = IF conn.stop THEN "exit" ELSE "if"]
    /\ UNCHANGED otherVars

MainIf ==
    /\ conn.main = "if"
    /\ conn' = [conn EXCEPT !.main = IF conn.schedule_reconnect THEN "clear" ELSE "hook"]
    /\ UNCHANGED otherVars

MainClear_SkipsConnect ==
    /\ conn.main = "clear"
    /\ conn' = [conn EXCEPT !.schedule_reconnect = FALSE,
                            !.main = IF conn.connected THEN "hook" ELSE "disconnect"]
    /\ UNCHANGED otherVars
MainClear ==
    /\ conn.main = "clear"
    /\ conn' = [conn EXCEPT !.schedule_reconnect = FALSE, !.main = "disconnect"]
    /\ UNCHANGED otherVars

\* try: self.ib.disconnect(), then time.sleep(1)
MainDisconnect ==
    /\ conn.main = "disconnect"
    /\ conn' = [conn EXCEPT !.link = FALSE, !.main = "connect"]
    /\ UNCHANGED otherVars

MainConnect(ok) ==
    /\ conn.main = "connect"
    /\ conn' = [connect_blocking(conn, ok) EXCEPT
                   !.main = "hook",
                   !.pending = FALSE,
                   !.lateConnect = conn.lateConnect \/ conn.stop]
    /\ UNCHANGED otherVars

\* if self._loop_hook: the hook runs, and returns or raises.
MainHook_Escapes(raises) ==
    /\ conn.main = "hook"
    /\ raises => conn.loop_hook
    /\ conn' = [conn EXCEPT !.main = IF raises THEN "exit" ELSE "sleep",
                            !.hookRaised = raises]
    /\ UNCHANGED otherVars
MainHook(raises) ==
    /\ conn.main = "hook"
    /\ raises => conn.loop_hook
    /\ conn' = [conn EXCEPT !.main = "sleep", !.hookRaised = raises]
    /\ UNCHANGED otherVars

\* self.ib.sleep(self._interval) returns, or raises.
MainSleep(raises) ==
    /\ conn.main = "sleep"
    /\ conn' = IF raises
               THEN [attempt_reconnect(conn) EXCEPT !.connected = FALSE, !.main = "while"]
               ELSE [conn EXCEPT !.main = "while"]
    /\ UNCHANGED otherVars

MainLoop ==
    \/ MainWhile
    \/ MainIf
    \/ MainClear
    \/ MainDisconnect
    \/ \E ok \in BOOLEAN : MainConnect(ok)
    \/ \E raises \in BOOLEAN : MainHook(raises)
    \/ \E raises \in BOOLEAN : MainSleep(raises)

ConnNext ==
    \/ \E ok \in BOOLEAN : CallerConnects(ok)
    \/ \E loop_hook \in BOOLEAN : start(loop_hook)
    \/ stop_SetsFlag
    \/ stop_Disconnects
    \/ LinkDrops
    \/ Heartbeat
    \/ MainLoop

ConnSpec == Init /\ [][ConnNext]_vars

\* Both loops are threads that keep running: each takes its next step.
ConnLiveSpec == ConnSpec /\ WF_vars(MainLoop) /\ WF_vars(Heartbeat)

\* ---------------------------------------------------- the pure functions
\* calculate_order_quantity, check_for_mandatory_liquidation and the
\* drawdown predicate, each called once on inputs drawn from small sets.
engineVars == <<pending_signals, ACTIVE_TRADES, orders, positions, last, pc,
                successfully_handled_tickers, hist, contracts_to_monitor, conn>>

\* signal_type as the function knows it, and a tag it does not know.
SignalTypes == {"LONG", "SHORT", "Module B"}
\* Prices and risks per share in cents: around zero, around
\* MAX_RISK_PER_TRADE, and a price above the LONG group capital.
QuantityPrices == {2000, 300000, 9000000}
QuantityRisks == {-100, 0, 100, 1900, 150000, 150001, 200000}
QuantityCalls ==
    { [NoCall EXCEPT !.fn = "calculate_order_quantity", !.tag = s, !.p = c, !.q = r] :
        s \in SignalTypes, c \in QuantityPrices, r \in QuantityRisks }

\* Dates are days counted from 2025-11-27, the Thursday line 134 names.
thanksgiving == 0
Dates == (thanksgiving - 10)..(thanksgiving + 10)
weekday(d) == (d + 3 + 70) % 7          \* date.weekday(): Monday is 0
LiquidationCalls ==
    { [NoCall EXCEPT !.fn = "check_for_mandatory_liquidation", !.p = d] : d \in Dates }

\* The function logs and ends in "pass": it returns None on every path.
liquidation_log(current_date) ==
    IF weekday(current_date) \in {0, 1, 2}
    THEN IF thanksgiving - current_date < 3 THEN "holiday soon" ELSE "all clear"
    ELSE ""
check_for_mandatory_liquidation(current_date) == "None"

\* Profit and loss and capital base in cents, around 15% of the base.
DrawdownCalls ==
    { [NoCall EXCEPT !.fn = "isDrawdownBreached", !.p = pnl, !.q = base] :
        pnl \in {100, 0, -149, -150, -151, -1499999, -1500000, -1500001},
        base \in {1000, ARC_CAPITAL} }

\* (capitalBase - (capitalBase + currentPnL)) / capitalBase >= maxDrawdownPct
isDrawdownBreached_Strict(currentPnL, capitalBase, maxDrawdownPct) ==
    (capitalBase - (capitalBase + currentPnL)) * 100 > maxDrawdownPct * capitalBase
isDrawdownBreached(currentPnL, capitalBase, maxDrawdownPct) ==
    (capitalBase - (capitalBase + currentPnL)) * 100 >= maxDrawdownPct * capitalBase

FnInit ==
    /\ fncall \in QuantityCalls \cup LiquidationCalls \cup DrawdownCalls
    /\ contracts_to_monitor = Symbols
    /\ EngineInit

Call_calculate_order_quantity ==
    /\ fncall.fn = "calculate_order_quantity"
    /\ ~fncall.done
    /\ fncall' = [fncall EXCEPT
           !.done = TRUE,
           !.ratio = capital_ratio(fncall.tag),
           !.out = calculate_order_quantity("AAA", fncall.tag, fncall.p, fncall.q)]
    /\ UNCHANGED engineVars

Call_check_for_mandatory_liquidation ==
    /\ fncall.fn = "check_for_mandatory_liquidation"
    /\ ~fncall.done
    /\ fncall' = [fncall EXCEPT
           !.done = TRUE,
           !.log = liquidation_log(fncall.p),
           !.ret = check_for_mandatory_liquidation(fncall.p)]
    /\ UNCHANGED engineVars

Call_isDrawdownBreached ==
    /\ fncall.fn = "isDrawdownBreached"
    /\ ~fncall.done
    /\ fncall' = [fncall EXCEPT
           !.done = TRUE,
           !.ret = IF isDrawdownBreached(fncall.p, fncall.q, MAX_TOTAL_DRAWDOWN_PCT)
                   THEN "True" ELSE "False"]
    /\ UNCHANGED engineVars

FnNext ==
    \/ Call_calculate_order_quantity
    \/ Call_check_for_mandatory_liquidation
    \/ Call_isDrawdownBreached

FnSpec == FnInit /\ [][FnNext]_vars


\* ===================================================================
\* Properties
\* ===================================================================
\* The lifecycle function has run to its end (the caller's clean-up may
\* or may not have run yet) and the broker has not moved since.
CycleRan == pc = "cleanup" \/ (pc = "idle" /\ hist.fresh)
\* run_execution_monitor has returned and nothing has happened since.
MonitorDone == pc = "idle" /\ hist.fresh

EntryOrdersNow(t) == { i \in CycleOrders(t) : orders[t][i].orderType = "LMT" }
ClosingOrdersNow(t) == { i \in CycleOrders(t) : orders[t][i].orderType = "MKT" }

\* ib.positions() has answered every position lookup of the cycle.
PositionsAnswered == ~ hist.positionsFailed

\* The entry order a symbol was tracked with when the cycle began.
StartEntry(t) == orders[t][hist.startTrades[t].entry_trade]
\* No order of t was working at the broker when the cycle began.
NoOpenAtStart(t) == \A i \in 1..hist.startLen[t] : orders[t][i].status # OpenStatus

\* C1: in every cycle, fill/cancel absorption runs before entry placement:
\* a symbol whose tracked entry order is already Filled or Cancelled when
\* the cycle begins gets no entry order in that cycle.
C1_AbsorbBeforePlace ==
    (pc # "idle" \/ hist.fresh) =>
        \A t \in DOMAIN hist.startTrades :
            StartEntry(t).status \in {"Filled"} \cup CancelStatuses
                => EntryOrdersNow(t) = {}

\* C2: a cycle that runs right after another one, with the same pending
\* signals and no broker event in between (the broker answering the
\* position lookups of both), places no order at all.
C2_Idempotent ==
    (hist.repeat /\ PositionsAnswered) => \A t \in Symbols : CycleOrders(t) = {}

C2_Witness ==
    /\ MonitorDone
    /\ hist.repeat
    /\ PositionsAnswered
    /\ hist.prevPlaced # {}

\* C3: a cycle places at most one entry order per symbol, and places one
\* only if no order of that symbol was working at the broker.
C3_OneEntryPerSymbol ==
    (pc # "idle" \/ hist.fresh) =>
        \A t \in Symbols :
            /\ Cardinality(EntryOrdersNow(t)) <= 1
            /\ EntryOrdersNow(t) # {} => NoOpenAtStart(t)

C3_Witness ==
    /\ pc = "B"
    /\ \E t \in Symbols : EntryOrdersNow(t) # {} /\ hist.startLen[t] > 0

C5_FillKeepsSignalStop ==
    MonitorDone =>
        \A t \in DOMAIN hist.startTrades :
            (StartEntry(t).status = "Filled" /\ t \in hist.startSignals)
                => /\ t \notin DOMAIN pending_signals
                   /\ t \in DOMAIN hist.evalTrades
                   /\ hist.evalTrades[t].entry_price = StartEntry(t).avgFillPrice
                   /\ hist.evalTrades[t].internal_stop =
                          hist.evalTrades[t].signal_type.stop_level

\* C6: a tracked long position whose price is strictly below its internal
\* stop when the stop-loss loop runs gets exactly one closing order, for
\* the whole broker-reported quantity, and leaves the store in that cycle
\* (the broker reports the quantity: the position lookups answer).
C6_StopBreachLiquidates ==
    (CycleRan /\ PositionsAnswered) =>
        \A t \in DOMAIN hist.evalTrades :
            (/\ positions[t] > 0
             /\ last[t] # NoPrice
             /\ last[t] < hist.evalTrades[t].internal_stop)
                => /\ Cardinality(CycleOrders(t)) = 1
                   /\ \E i \in ClosingOrdersNow(t) :
                          /\ orders[t][i].action = "SELL"
                          /\ orders[t][i].totalQuantity = Abs(positions[t])
                   /\ t \notin DOMAIN ACTIVE_TRADES

C6_Witness ==
    /\ pc = "cleanup"
    /\ PositionsAnswered
    /\ \E t \in DOMAIN hist.evalTrades :
          /\ positions[t] > 0
          /\ last[t] # NoPrice
          /\ last[t] < hist.evalTrades[t].internal_stop
          /\ ClosingOrdersNow(t) # {}

\* C7: a tracked symbol whose price is unavailable gets no closing order in
\* the cycle, and its entry stays in the store: the stop-loss loop leaves
\* it as it found it, and the whole cycle leaves it as it was at the start
\* unless it absorbed a fill of the entry order.
C7_NoPriceNoLiquidation ==
    CycleRan =>
        \A t \in DOMAIN hist.evalTrades :
            last[t] = NoPrice
                => /\ ClosingOrdersNow(t) = {}
                   /\ t \in DOMAIN ACTIVE_TRADES
                   /\ ACTIVE_TRADES[t] = hist.evalTrades[t]
                   /\ t \in DOMAIN hist.startTrades
                   /\ StartEntry(t).status # "Filled"
                          => ACTIVE_TRADES[t] = hist.startTrades[t]

C7_Witness ==
    /\ pc = "cleanup"
    /\ \E t \in DOMAIN hist.evalTrades :
          /\ last[t] = NoPrice
          /\ positions[t] > 0
          /\ t \in DOMAIN ACTIVE_TRADES

\* C8: a signal is consumed once: when the cycle finds its entry order
\* Filled or Cancelled, the signal has left the pending map by the time
\* the monitor returns.
C8_HandledSignalLeavesQueue ==
    MonitorDone =>
        \A t \in hist.startSignals \cap DOMAIN hist.startTrades :
            StartEntry(t).status \in {"Filled"} \cup CancelStatuses
                => t \notin DOMAIN pending_signals

\* C9: the lifecycle function returns the set of consumed signal keys, and
\* the monitor removes exactly those keys from the pending map.
C9_ReturnsConsumedKeys ==
    /\ pc = "cleanup" =>
          /\ successfully_handled_tickers.iterable
          /\ successfully_handled_tickers.tickers \subseteq Symbols
    /\ MonitorDone =>
          /\ hist.raised = "none"
          /\ DOMAIN pending_signals =
                 hist.startSignals \ successfully_handled_tickers.tickers

\* C10: the cycle that finds the tracked entry order Cancelled consumes the
\* signal, leaves no tracked position for the symbol, and places no new
\* entry order for it.
C10_CancelConsumesSignal ==
    MonitorDone =>
        \A t \in DOMAIN hist.startTrades :
            StartEntry(t).status \in CancelStatuses
                => /\ t \notin DOMAIN pending_signals
                   /\ t \notin DOMAIN ACTIVE_TRADES
                   /\ EntryOrdersNow(t) = {}

\* The orders of t placed by the stop-loss loop of the current cycle.
PlacedInC(t) == (hist.evalLen[t] + 1)..Len(orders[t])
\* The stop of t is breached at the price the stop-loss loop sees.
LongBreach(t) == positions[t] > 0 /\ last[t] < hist.evalTrades[t].internal_stop
ShortBreach(t) == positions[t] < 0 /\ last[t] > hist.evalTrades[t].internal_stop

\* C11: a pending signal whose quantity computes to 0 gets no order and has
\* left the pending map when the monitor returns, so that no later cycle
\* looks at it again.
C11_ZeroQuantityDropsSignal ==
    MonitorDone =>
        \A t \in hist.startSignals :
            (/\ positions[t] = 0
             /\ NoOpenAtStart(t)
             /\ last[t] # NoPrice
             /\ calculate_order_quantity(t, "LONG", last[t], last[t] - StopOf(last[t])) = 0)
                => /\ CycleOrders(t) = {}
                   /\ t \notin DOMAIN pending_signals

\* C12: a symbol enters the store only with an entry order seen Filled, and
\* a symbol in the store has a non-zero broker position, one cycle of
\* disagreement at most: a symbol the store held through two cycles in a
\* row, with no broker event between them, is held at the broker.
C12_TrackedMeansHeld ==
    MonitorDone =>
        \A t \in DOMAIN ACTIVE_TRADES :
            /\ t \notin DOMAIN hist.startTrades
                   => EntryTrade(ACTIVE_TRADES, t).status = "Filled"
            /\ (hist.repeat /\ t \in DOMAIN hist.startTrades)
                   => positions[t] # 0

\* C13: a symbol tracked with a Filled entry order, for which the broker
\* reports quantity 0, has left the store when a cycle that placed no order
\* for it returns.
C13_ClosedPositionLeavesStore ==
    MonitorDone =>
        \A t \in DOMAIN hist.startTrades :
            (/\ StartEntry(t).status = "Filled"
             /\ positions[t] = 0
             /\ CycleOrders(t) = {})
                => t \notin DOMAIN ACTIVE_TRADES

\* C14: a pending signal whose symbol is in the store when the cycle begins
\* gets no entry order in that cycle, whatever the broker reports.
C14_TrackedSymbolGetsNoEntry ==
    (pc # "idle" \/ hist.fresh) =>
        \A t \in hist.startSignals \cap DOMAIN hist.startTrades :
            \A i \in CycleOrders(t) : orders[t][i].orderType # "LMT"

\* C15: when the placement of the closing order raises, the symbol stays in
\* the store as the stop-loss loop found it and no closing order exists for
\* it; the cycle that follows with nothing changed at the broker (and the
\* position lookups answering) places the closing order, for the whole
\* position, and removes the symbol.
C15_FailedCloseIsRetried ==
    /\ (pc = "idle" /\ hist.failed.call = "liquidate_position") =>
          LET t == hist.failed.symbol
          IN /\ t \in DOMAIN ACTIVE_TRADES
             /\ ACTIVE_TRADES[t] = hist.evalTrades[t]
             /\ PlacedInC(t) = {}
    /\ (CycleRan /\ PositionsAnswered /\ hist.prevFailed.call = "liquidate_position") =>
          LET t == hist.prevFailed.symbol
          IN /\ t \in DOMAIN hist.evalTrades
             /\ Cardinality(PlacedInC(t)) = 1
             /\ \A i \in PlacedInC(t) :
                    /\ orders[t][i].orderType = "MKT"
                    /\ orders[t][i].totalQuantity = Abs(positions[t])
             /\ t \notin DOMAIN ACTIVE_TRADES

C15_Witness ==
    /\ pc = "cleanup"
    /\ PositionsAnswered
    /\ hist.prevFailed.call = "liquidate_position"
    /\ PlacedInC(hist.prevFailed.symbol) # {}

\* C16: no failure of a gateway call ends the cycle: the monitor never
\* stops on an exception of the open-orders query or of an order placement,
\* so a cycle that has begun placing goes on to the fills and one that has
\* begun the stop-loss loop goes on to the clean-up.
C16_GatewayFailureContained ==
    [][ /\ pc = "A" => pc' = "B"
        /\ pc = "C" => pc' = "cleanup" ]_vars

\* C17: a symbol whose latest order is a closing order reported Cancelled,
\* while the broker still reports a position, is in the store when the next
\* cycle returns.
C17_CancelledCloseReadmits ==
    MonitorDone =>
        \A t \in Symbols :
            (/\ positions[t] # 0
             /\ hist.startLen[t] = Len(orders[t])
             /\ Len(orders[t]) > 0
             /\ orders[t][Len(orders[t])].orderType = "MKT"
             /\ orders[t][Len(orders[t])].status \in CancelStatuses)
                => t \in DOMAIN ACTIVE_TRADES

C20_ClosingOrderIsLimit ==
    CycleRan =>
        \A t \in Symbols : \A i \in PlacedInC(t) :
            /\ last[t] # NoPrice => orders[t][i].orderType = "LMT"
            /\ orders[t][i].orderType = "MKT" => last[t] = NoPrice

\* C21: every entry order placed for a signal is a limit order whose limit
\* price is the reference price of that signal.
C21_EntryAtReferencePrice ==
    pc = "B" =>
        \A t \in Symbols : \A i \in CycleOrders(t) :
            /\ orders[t][i].orderType = "LMT"
            /\ orders[t][i].lmtPrice = pending_signals[t].price

\* --------------------------------------------- claims on the pure functions
QuantityDone == fncall.fn = "calculate_order_quantity" /\ fncall.done

\* C22: with a positive risk per share the quantity is
\* floor(maxRiskAmount / risk per share), where maxRiskAmount is the
\* capital-pool fraction of the signal's source times the total risk
\* capital times the risk percentage per trade (MAX_RISK_PER_TRADE is that
\* capital times that percentage).
C22_QuantityUsesPool ==
    (QuantityDone /\ fncall.q > 0) =>
        fncall.out = ((capital_ratio(fncall.tag) * MAX_RISK_PER_TRADE) \div 100) \div fncall.q

\* C23: the quantity is 0 whenever the risk per share (entry price minus
\* stop level) is zero or negative, whatever the source tag.
C23_NoRiskNoQuantity ==
    (QuantityDone /\ fncall.q <= 0) => fncall.out = 0

C23_Witness ==
    /\ QuantityDone
    /\ fncall.q = 0
    /\ fncall.tag = "SHORT"

\* C24: for entry price > stop level > 0 the quantity is a non-negative
\* integer, and it is 0 exactly when one share costs more than the capital
\* pool of the source or the risk per share is not positive.
C24_ZeroIffOverPool ==
    (QuantityDone /\ fncall.q > 0 /\ fncall.p - fncall.q > 0) =>
        /\ fncall.out \in Nat
        /\ fncall.out = 0 <=> (fncall.p > max_group_capital(fncall.tag) \/ fncall.q <= 0)

\* C25: a source tag that is no known capital pool gets the default pool,
\* the one of "LONG": the ratio and the quantity are those of a "LONG" call
\* with the same price and risk, and the quantity is not forced to 0.
C25_UnknownTagDefaultPool ==
    (QuantityDone /\ fncall.tag \notin {"LONG", "SHORT"}) =>
        /\ fncall.ratio = LONG_TERM_CAPITAL_RATIO
        /\ fncall.out = calculate_order_quantity("AAA", "LONG", fncall.p, fncall.q)
        /\ (fncall.q > 0 /\ fncall.q <= MAX_RISK_PER_TRADE) => fncall.out > 0

C25_Witness ==
    /\ QuantityDone
    /\ fncall.tag = "Module B"
    /\ fncall.out > 0

\* The entry orders (limit orders) of symbol t that have been filled.
FilledEntries(t) ==
    { i \in 1..Len(orders[t]) :
        orders[t][i].orderType = "LMT" /\ orders[t][i].status = "Filled" }

\* C26: the store holds one entry per symbol, that of the symbol's latest
\* entry order: placing an entry order replaces the symbol's entry with the
\* values of the new order, and once the fill of that order has been
\* absorbed the entry price is the fill price of that order alone and the
\* stop is derived from that fill price alone, whatever was stored before.
C26_RecordOverwrites ==
    /\ pc = "B" =>
          \A t \in PlacedNow :
              /\ t \in DOMAIN ACTIVE_TRADES
              /\ ACTIVE_TRADES[t].entry_trade = Len(orders[t])
              /\ ACTIVE_TRADES[t].entry_price = orders[t][Len(orders[t])].lmtPrice
              /\ ACTIVE_TRADES[t].internal_stop
                     = StopOf(orders[t][Len(orders[t])].lmtPrice)
    /\ pc = "C" =>
          \A t \in DOMAIN ACTIVE_TRADES :
              /\ \A i \in 1..Len(orders[t]) :
                     orders[t][i].orderType = "LMT"
                         => i <= ACTIVE_TRADES[t].entry_trade
              /\ EntryTrade(ACTIVE_TRADES, t).status = "Filled" =>
                     /\ ACTIVE_TRADES[t].entry_price
                            = EntryTrade(ACTIVE_TRADES, t).avgFillPrice
                     /\ ACTIVE_TRADES[t].internal_stop
                            = StopOf(EntryTrade(ACTIVE_TRADES, t).avgFillPrice)

\* A symbol filled twice at different prices: the store has the second fill.
C26_Witness ==
    /\ pc = "C"
    /\ \E t \in DOMAIN ACTIVE_TRADES : \E i \in FilledEntries(t) :
           /\ i < ACTIVE_TRADES[t].entry_trade
           /\ ACTIVE_TRADES[t].entry_trade \in FilledEntries(t)
           /\ orders[t][i].avgFillPrice # EntryTrade(ACTIVE_TRADES, t).avgFillPrice
           /\ ACTIVE_TRADES[t].entry_price = EntryTrade(ACTIVE_TRADES, t).avgFillPrice

\* C27: the mandatory-liquidation check yields true exactly on the last
\* trading day before a weekend or a full-closure holiday.
Holidays == {thanksgiving}
TradingDay(d) == weekday(d) < 5 /\ d \notin Holidays
MandatoryLiquidationDue(d) == TradingDay(d) /\ ~TradingDay(d + 1)
C27_LiquidationDueBeforeClosure ==
    (fncall.fn = "check_for_mandatory_liquidation" /\ fncall.done) =>
        (fncall.ret = "True" <=> MandatoryLiquidationDue(fncall.p))

\* C28: the drawdown predicate is true exactly when the loss is at least
\* the maximum drawdown percentage of the capital base: true at the
\* boundary, false one cent below it.
C28_DrawdownBoundaryInclusive ==
    (fncall.fn = "isDrawdownBreached" /\ fncall.done) =>
        (fncall.ret = "True" <=> (-fncall.p) * 100 >= MAX_TOTAL_DRAWDOWN_PCT * fncall.q)

C28_Witness ==
    /\ fncall.fn = "isDrawdownBreached"
    /\ fncall.done
    /\ (-fncall.p) * 100 = MAX_TOTAL_DRAWDOWN_PCT * fncall.q
    /\ fncall.ret = "True"

C30_FailedLookupIsNotFlat ==
    (pc = "B" /\ hist.positionsFailed) =>
        \A t \in Symbols : positions[t] # 0 => CycleOrders(t) = {}

\* C31: a symbol that has been liquidated on a stop breach, and for which
\* no signal has been emitted since, gets no further entry order: no entry
\* order follows a closing order that has filled.
C31_NoReentryOnOldSignal ==
    \A t \in Symbols : \A i \in 1..Len(orders[t]) : \A j \in 1..Len(orders[t]) :
        (/\ i < j
         /\ orders[t][i].orderType = "MKT"
         /\ orders[t][i].status = "Filled")
            => orders[t][j].orderType # "LMT"

\* C32: the stop-loss loop places a closing order only for a symbol whose
\* broker position is non-zero when it runs: a tracked symbol whose entry
\* order has not filled gets none, wherever the price stands.
C32_NoCloseWithoutPosition ==
    CycleRan =>
        \A t \in Symbols : positions[t] = 0 => PlacedInC(t) = {}

\* An entry order still working, no position, and the price below the stop.
C32_Witness ==
    /\ pc = "cleanup"
    /\ \E t \in DOMAIN hist.evalTrades :
          /\ positions[t] = 0
          /\ EntryTrade(hist.evalTrades, t).status = OpenStatus
          /\ last[t] # NoPrice
          /\ last[t] < hist.evalTrades[t].internal_stop
          /\ PlacedInC(t) = {}

\* C33: the side of every entry order is the action of the signal it is
\* placed for.
C33_EntrySideIsSignalAction ==
    pc = "B" =>
        \A t \in Symbols : \A i \in CycleOrders(t) :
            orders[t][i].action = pending_signals[t].action

\* The entry order t is tracked with, now and when the cycle began, is one
\* and the same order, and it was Filled before the cycle began.
SameFilledEntry(t) ==
    /\ t \in DOMAIN hist.startTrades
    /\ hist.startTrades[t].entry_trade = ACTIVE_TRADES[t].entry_trade
    /\ EntryTrade(ACTIVE_TRADES, t).status = "Filled"

\* C34: absorbing a fill a second time changes nothing.  When the fills and
\* cancellations of a cycle have been absorbed, a further absorption of a
\* Filled entry order would leave its entry as it is; and in a cycle that
\* follows another one with nothing in between, the entry of a symbol whose
\* entry order was Filled already is the entry the cycle began with, and
\* the cycle has placed no order for the symbol.
C34_AbsorptionIdempotent ==
    pc = "C" =>
        \A t \in DOMAIN ACTIVE_TRADES :
            /\ EntryTrade(ACTIVE_TRADES, t).status = "Filled" =>
                   AbsorbFill(ACTIVE_TRADES[t], EntryTrade(ACTIVE_TRADES, t))
                       = ACTIVE_TRADES[t]
            /\ (hist.repeat /\ SameFilledEntry(t)) =>
                   /\ ACTIVE_TRADES[t] = hist.startTrades[t]
                   /\ CycleOrders(t) = {}

\* A fill at a better price than the limit, absorbed by the cycle before.
C34_Witness ==
    /\ pc = "C"
    /\ hist.repeat
    /\ \E t \in DOMAIN ACTIVE_TRADES :
          /\ SameFilledEntry(t)
          /\ EntryTrade(ACTIVE_TRADES, t).avgFillPrice
                 # EntryTrade(ACTIVE_TRADES, t).lmtPrice
          /\ ACTIVE_TRADES[t] = hist.startTrades[t]

\* The thread is inside its loop.
MainRunning == conn.main \notin {"new", "ready", "returned", "exit"}
HbRunning == conn.hb \notin {"new", "exit"}

\* C35: once stop() has been called, the main loop and the heartbeat thread
\* both eventually exit, and connect_blocking is never called by the main
\* loop after the stop.
C35_StopEndsBothLoops ==
    /\ [] ~ conn.lateConnect
    /\ conn.stop ~> (~ MainRunning /\ ~ HbRunning)

\* C36: as long as stop() is not called, a disconnect that the heartbeat
\* thread has detected is followed by a reconnect attempt of the main loop.
C36_DetectedDisconnectReconnects ==
    conn.pending ~> (~ conn.pending \/ conn.stop)

\* The heartbeat sets the flag between the main loop's test of the flag
\* and its clearing.
C36_Witness ==
    /\ conn.pending
    /\ ~ conn.stop
    /\ conn.main = "clear"
    /\ conn.hb = "sleep"

\* C37: an exception of the loop hook does not end the main loop: the loop
\* exits only when stop() has been called, and after a call of the hook
\* that raised it comes to call the hook again unless stop() is called.
C37_HookErrorKeepsLooping ==
    /\ [] (conn.main = "exit" => conn.stop)
    /\ conn.hookRaised ~> (conn.main = "hook" \/ conn.stop)

\* The hook raised and the loop is at the hook again.
C37_Witness ==
    /\ conn.hookRaised
    /\ conn.main = "hook"
    /\ ~ conn.stop

====
